---- MODULE Spec2Model ----
(***************************************************************************)
(* fhpack: the LZ4FH codec for Apple II hi-res pages (src/fhpack.cpp).     *)
(*                                                                         *)
(* Buffers are sequences of bytes (naturals 0..255); the byte the C code   *)
(* calls buf[i] is At(buf, i).  Every C loop is a recursive operator that  *)
(* runs the loop body in program order; the recursion splits the iteration *)
(* range in halves only to keep the evaluation stack shallow, and an early *)
(* exit (break, return) is a flag that turns the remaining iterations into *)
(* no-ops.                                                                 *)
(*                                                                         *)
(* The page has Rows rows of 128 bytes (120 visible bytes and an 8-byte    *)
(* screen hole).  The program is built for 64 rows (MAX_SIZE = 8192); the  *)
(* model keeps every format constant and the hole geometry and scales only *)
(* the number of rows.                                                     *)
(***************************************************************************)
EXTENDS Integers, Sequences, FiniteSets, TLC

\* Number of 128-byte rows of the page (64 in the program).
Rows == 2

MAX_SIZE == 128 * Rows
MIN_SIZE == MAX_SIZE - 8
\* The program's 100 is this formula at MAX_SIZE = 8192 (comment at the define).
MAX_EXPANSION == ((MAX_SIZE \div 255) + 1) * 3 + 1

MIN_MATCH_LEN == 4
MAX_MATCH_LEN == 255
MAX_LITERAL_LEN == 255
INITIAL_LEN == 15
EMPTY_MATCH_TOKEN == 253
EOD_MATCH_TOKEN == 254
LZ4FH_MAGIC == 102

At(buf, i) == buf[i + 1]

\* memcpy source: n bytes of buf starting at index src
Bytes(buf, src, n) == SubSeq(buf, src + 1, src + n)

\* The array whose cells are f[1], ..., f[n], as a tuple.
Tuple(f) == SubSeq(f, 1, Len(f))

(***************************************************************************)
(* getMatchLen: while (count-- && *str1++ == *str2++) matchLen++           *)
(* matchLen counts the iterations, so the loop ends with matchLen at the   *)
(* first k that has used up count or at which the two bytes differ.        *)
(***************************************************************************)
getMatchLen(buf, str1, str2, count) ==
    CHOOSE k \in 0..count :
        /\ k = count \/ At(buf, str1 + k) # At(buf, str2 + k)
        /\ \A j \in 0..(k - 1) : At(buf, str1 + j) = At(buf, str2 + j)

(***************************************************************************)
(* findLongestMatch(matchPtr, inBuf, inLen, &matchOffset): brute-force     *)
(* scan of the start offsets ii < matchPtr.  Loop state: longest,          *)
(* longestOffset and whether a break was taken.                            *)
(***************************************************************************)
\* findLongestMatchBody with the match capped at the longest adjusted
\* length, MAX_MATCH_LEN - MIN_MATCH_LEN.
findLongestMatchBodyShortCap(buf, inLen, matchPtr, ii, st) ==
    LET rest == inLen - matchPtr
        maxMatchLen == IF rest > MAX_MATCH_LEN - MIN_MATCH_LEN
                       THEN MAX_MATCH_LEN - MIN_MATCH_LEN ELSE rest
    IN IF maxMatchLen < MIN_MATCH_LEN
       THEN [st EXCEPT !.brk = TRUE]
       ELSE LET matchLen == getMatchLen(buf, matchPtr, ii, maxMatchLen)
                better == matchLen > st.longest
            IN [longest |-> IF better THEN matchLen ELSE st.longest,
                longestOffset |-> IF better THEN ii ELSE st.longestOffset,
                brk |-> (matchLen = maxMatchLen)]

\* findLongestMatchBody with a later start of the same length taken over an
\* earlier one.
findLongestMatchBodyLastWins(buf, inLen, matchPtr, ii, st) ==
    LET rest == inLen - matchPtr
        maxMatchLen == IF rest > MAX_MATCH_LEN THEN MAX_MATCH_LEN ELSE rest
    IN IF maxMatchLen < MIN_MATCH_LEN
       THEN [st EXCEPT !.brk = TRUE]
       ELSE LET matchLen == getMatchLen(buf, matchPtr, ii, maxMatchLen)
                better == matchLen >= st.longest
            IN [longest |-> IF better THEN matchLen ELSE st.longest,
                longestOffset |-> IF better THEN ii ELSE st.longestOffset,
                brk |-> (matchLen = maxMatchLen)]

findLongestMatchBody(buf, inLen, matchPtr, ii, st) ==
    LET rest == inLen - matchPtr
        maxMatchLen == IF rest > MAX_MATCH_LEN THEN MAX_MATCH_LEN ELSE rest
    IN IF maxMatchLen < MIN_MATCH_LEN
       THEN [st EXCEPT !.brk = TRUE]
       ELSE LET matchLen == getMatchLen(buf, matchPtr, ii, maxMatchLen)
                better == matchLen > st.longest
            IN [longest |-> IF better THEN matchLen ELSE st.longest,
                longestOffset |-> IF better THEN ii ELSE st.longestOffset,
                brk |-> (matchLen = maxMatchLen)]

RECURSIVE findLongestMatchLoop(_, _, _, _, _, _)
findLongestMatchLoop(buf, inLen, matchPtr, lo, hi, st) ==
    IF st.brk THEN st
    ELSE IF hi - lo > 1
    THEN findLongestMatchLoop(buf, inLen, matchPtr, (lo + hi) \div 2, hi,
             findLongestMatchLoop(buf, inLen, matchPtr, lo, (lo + hi) \div 2,
                 st))
    ELSE IF lo < hi THEN findLongestMatchBody(buf, inLen, matchPtr, lo, st)
    ELSE st

\* findLongestMatch with the scan running up to matchPtr itself
\* (ii <= maxStartOffset).
findLongestMatchInclusive(buf, inLen, matchPtr) ==
    LET maxStartOffset == matchPtr + 1
        st == findLongestMatchLoop(buf, inLen, matchPtr, 1, maxStartOffset,
                  findLongestMatchLoop(buf, inLen, matchPtr, 0,
                      IF maxStartOffset < 1 THEN maxStartOffset ELSE 1,
                      [longest |-> 0, longestOffset |-> 0, brk |-> FALSE]))
    IN [longest |-> st.longest, longestOffset |-> st.longestOffset]

\* Returns [longest, longestOffset] (the return value and *pMatchOffset).
findLongestMatch(buf, inLen, matchPtr) ==
    LET maxStartOffset == matchPtr
        st == findLongestMatchLoop(buf, inLen, matchPtr, 1, maxStartOffset,
                  findLongestMatchLoop(buf, inLen, matchPtr, 0,
                      IF maxStartOffset < 1 THEN maxStartOffset ELSE 1,
                      [longest |-> 0, longestOffset |-> 0, brk |-> FALSE]))
    IN [longest |-> st.longest, longestOffset |-> st.longestOffset]

\* findLongestMatch at every position of the buffer, the entry at index
\* p + 1 for matchPtr = inBuf + p.  The result depends on the buffer and the
\* position alone, so each call a parser makes returns the entry of its
\* position.
MatchTable(buf, inLen) ==
    Tuple([p \in 1..inLen |-> findLongestMatch(buf, inLen, p - 1)])

(***************************************************************************)
(* Chunk emission shared by both encoders.                                 *)
(***************************************************************************)
\* EmitMatchChunk with the match length extension written only when
\* adjustedMatch > INITIAL_LEN: a match of 19 loses its extension byte.
EmitMatchChunkLateExtension(buf, literalSrc, numLiterals, longestMatch, matchOffset) ==
    LET adjustedMatch == longestMatch - MIN_MATCH_LEN
        lowNibble == IF adjustedMatch <= INITIAL_LEN THEN adjustedMatch
                     ELSE INITIAL_LEN
        highNibble == IF numLiterals <= INITIAL_LEN THEN numLiterals
                      ELSE INITIAL_LEN
    IN <<(lowNibble + 16 * highNibble) % 256>>
       \o (IF numLiterals >= INITIAL_LEN
           THEN <<(numLiterals - INITIAL_LEN) % 256>> ELSE <<>>)
       \o Bytes(buf, literalSrc, numLiterals)
       \o (IF adjustedMatch > INITIAL_LEN
           THEN <<(adjustedMatch - INITIAL_LEN) % 256>> ELSE <<>>)
       \o <<matchOffset % 256, (matchOffset \div 256) % 256>>

\* The chunk a match ends: 4/4 length byte, literal length extension,
\* literals, match length extension, 16-bit little-endian offset.
EmitMatchChunk(buf, literalSrc, numLiterals, longestMatch, matchOffset) ==
    LET adjustedMatch == longestMatch - MIN_MATCH_LEN
        lowNibble == IF adjustedMatch <= INITIAL_LEN THEN adjustedMatch
                     ELSE INITIAL_LEN
        highNibble == IF numLiterals <= INITIAL_LEN THEN numLiterals
                      ELSE INITIAL_LEN
        mixedLengths == (lowNibble + 16 * highNibble) % 256
    IN <<mixedLengths>>
       \o (IF numLiterals >= INITIAL_LEN
           THEN <<(numLiterals - INITIAL_LEN) % 256>> ELSE <<>>)
       \o Bytes(buf, literalSrc, numLiterals)
       \o (IF adjustedMatch >= INITIAL_LEN
           THEN <<(adjustedMatch - INITIAL_LEN) % 256>> ELSE <<>>)
       \o <<matchOffset % 256, (matchOffset \div 256) % 256>>

\* EmitEndChunk with the remaining literals closed by the no-match symbol
\* and the end-of-data symbol in a chunk of its own.
EmitEndChunkSeparate(buf, literalSrc, numLiterals) ==
    (IF numLiterals < INITIAL_LEN
     THEN <<(16 * numLiterals + 15) % 256>>
     ELSE <<255, (numLiterals - INITIAL_LEN) % 256>>)
    \o Bytes(buf, literalSrc, numLiterals)
    \o <<EMPTY_MATCH_TOKEN, 15, EOD_MATCH_TOKEN>>

\* The final chunk: remaining literals, end-of-data in the match length.
EmitEndChunk(buf, literalSrc, numLiterals) ==
    (IF numLiterals < INITIAL_LEN
     THEN <<(16 * numLiterals + 15) % 256>>
     ELSE <<255, (numLiterals - INITIAL_LEN) % 256>>)
    \o Bytes(buf, literalSrc, numLiterals)
    \o <<EOD_MATCH_TOKEN>>

(***************************************************************************)
(* compressBufferGreedily.  Loop state: inPtr, the bytes written so far    *)
(* (out; outPtr - outBuf = Len(out)), literalSrcPtr (-1 for NULL),         *)
(* numLiterals, whether the assert ever failed, and matches, what          *)
(* findLongestMatch returns at each position.                              *)
(***************************************************************************)
\* GreedyBody closing a run of literals one byte early, at 254.
GreedyBodyShortRuns(buf, inLen, st) ==
    LET m == At(st.matches, st.inPtr)
        asserted == st.assertOk /\ Len(st.out) < MAX_SIZE + MAX_EXPANSION
    IN IF m.longest < MIN_MATCH_LEN
       THEN LET full == st.numLiterals = MAX_LITERAL_LEN - 1
                out1 == IF full
                        THEN st.out
                             \o <<255, st.numLiterals - INITIAL_LEN>>
                             \o Bytes(buf, st.literalSrc, st.numLiterals)
                             \o <<EMPTY_MATCH_TOKEN>>
                        ELSE st.out
                num1 == IF full THEN 0 ELSE st.numLiterals
            IN [inPtr |-> st.inPtr + 1,
                out |-> out1,
                literalSrc |-> IF num1 = 0 THEN st.inPtr ELSE st.literalSrc,
                numLiterals |-> num1 + 1,
                assertOk |-> asserted,
                matches |-> st.matches]
       ELSE [inPtr |-> st.inPtr + m.longest,
             out |-> st.out \o EmitMatchChunk(buf, st.literalSrc,
                                  st.numLiterals, m.longest, m.longestOffset),
             literalSrc |-> -1,
             numLiterals |-> 0,
             assertOk |-> asserted,
             matches |-> st.matches]

GreedyBody(buf, inLen, st) ==
    LET m == At(st.matches, st.inPtr)
        asserted == st.assertOk /\ Len(st.out) < MAX_SIZE + MAX_EXPANSION
    IN IF m.longest < MIN_MATCH_LEN
       THEN LET full == st.numLiterals = MAX_LITERAL_LEN
                out1 == IF full
                        THEN st.out
                             \o <<255, MAX_LITERAL_LEN - INITIAL_LEN>>
                             \o Bytes(buf, st.literalSrc, st.numLiterals)
                             \o <<EMPTY_MATCH_TOKEN>>
                        ELSE st.out
                num1 == IF full THEN 0 ELSE st.numLiterals
            IN [inPtr |-> st.inPtr + 1,
                out |-> out1,
                literalSrc |-> IF num1 = 0 THEN st.inPtr ELSE st.literalSrc,
                numLiterals |-> num1 + 1,
                assertOk |-> asserted,
                matches |-> st.matches]
       ELSE [inPtr |-> st.inPtr + m.longest,
             out |-> st.out \o EmitMatchChunk(buf, st.literalSrc,
                                  st.numLiterals, m.longest, m.longestOffset),
             literalSrc |-> -1,
             numLiterals |-> 0,
             assertOk |-> asserted,
             matches |-> st.matches]

\* At most n iterations of while (inPtr < inBuf + inLen).
RECURSIVE GreedyLoop(_, _, _, _)
GreedyLoop(buf, inLen, n, st) ==
    IF st.inPtr >= inLen THEN st
    ELSE IF n > 1
    THEN GreedyLoop(buf, inLen, n - (n \div 2),
             GreedyLoop(buf, inLen, n \div 2, st))
    ELSE GreedyBody(buf, inLen, st)

\* Returns the output bytes (the return value is their number) and whether
\* the assert held at every iteration.
compressBufferGreedily(buf, inLen) ==
    LET st == GreedyLoop(buf, inLen, inLen,
                  [inPtr |-> 0, out |-> <<LZ4FH_MAGIC>>, literalSrc |-> -1,
                   numLiterals |-> 0, assertOk |-> TRUE,
                   matches |-> MatchTable(buf, inLen)])
    IN [out |-> st.out \o EmitEndChunk(buf, st.literalSrc, st.numLiterals),
        assertOk |-> st.assertOk]

(***************************************************************************)
(* compressBufferOptimally.  optList is a sequence of inLen + 1 OptNode    *)
(* records, node i at index i + 1, zeroed by calloc.                       *)
(***************************************************************************)
ZeroNode ==
    [totalCost |-> 0, matchLength |-> 0, matchOffset |-> 0, literalLength |-> 0]

\* The cost of the match path at a node whose longest match is longestMatch.
CostForMatch(optList, i, longestMatch) ==
    IF longestMatch < MIN_MATCH_LEN
    THEN MAX_SIZE * 2
    ELSE At(optList, i + longestMatch).totalCost + 3
         + (IF longestMatch >= INITIAL_LEN THEN 1 ELSE 0)

\* Pass 1, the body of for (unsigned int i = inLen - 1; i < inLen; i--).
Pass1Node(inLen, i, optList, m) ==
    LET hasMatch == m.longest >= MIN_MATCH_LEN
        costForMatch == CostForMatch(optList, i, m.longest)
        next == At(optList, i + 1)
        literalLength ==
            IF i = inLen - 1 THEN 1
            ELSE IF next.matchLength # 0 THEN 1
            ELSE IF next.literalLength = MAX_LITERAL_LEN THEN 1
            ELSE next.literalLength + 1
        costForLiteral ==
            IF i = inLen - 1 THEN 2
            ELSE (IF next.matchLength # 0 THEN 1
                  ELSE IF next.literalLength = MAX_LITERAL_LEN THEN 3
                  ELSE IF next.literalLength + 1 = INITIAL_LEN THEN 2
                  ELSE 1)
                 + next.totalCost
        useMatch == costForLiteral > costForMatch
    IN [totalCost |-> IF useMatch THEN costForMatch ELSE costForLiteral,
        matchLength |-> IF useMatch /\ hasMatch THEN m.longest ELSE 0,
        matchOffset |-> IF hasMatch THEN m.longestOffset ELSE 0,
        literalLength |-> literalLength]

\* i - 1 on an unsigned int: 0 wraps to UINT_MAX, which 2^31 - 1 stands for
\* (it only has to exceed every inLen).
UnsignedDec(i) == IF i = 0 THEN 2147483647 ELSE i - 1

\* Loop state: the unsigned i, optList and matches, what findLongestMatch
\* returns at each position.
Pass1Body(inLen, st) ==
    [i |-> UnsignedDec(st.i),
     optList |-> [st.optList EXCEPT
                     ![st.i + 1] = Pass1Node(inLen, st.i, st.optList,
                                             At(st.matches, st.i))],
     matches |-> st.matches]

\* At most n iterations, while i < inLen.
RECURSIVE Pass1Loop(_, _, _)
Pass1Loop(inLen, n, st) ==
    IF st.i >= inLen THEN st
    ELSE IF n > 1
    THEN Pass1Loop(inLen, n - (n \div 2), Pass1Loop(inLen, n \div 2, st))
    ELSE Pass1Body(inLen, st)

OptimalPass1(buf, inLen) ==
    Pass1Loop(inLen, inLen,
        [i |-> UnsignedDec(inLen),
         optList |-> Tuple([k \in 1..(inLen + 1) |-> ZeroNode]),
         matches |-> MatchTable(buf, inLen)]).optList

\* Pass 2, one iteration of for (i = 0; i < inLen; ).  Loop state: i, the
\* bytes written so far, literalSrcPtr (-1 for NULL), numLiterals, and
\* predictedLength, which is set before the loop and not touched by it.
Pass2Body(buf, optList, st) ==
    LET node == At(optList, st.i)
    IN IF node.matchLength = 0
       THEN LET flushed ==
                    IF st.numLiterals # 0
                    THEN st.out
                         \o (IF st.numLiterals < INITIAL_LEN
                             THEN <<(16 * st.numLiterals + 15) % 256>>
                             ELSE <<255, (st.numLiterals - INITIAL_LEN) % 256>>)
                         \o Bytes(buf, st.literalSrc, st.numLiterals)
                         \o <<EMPTY_MATCH_TOKEN>>
                    ELSE st.out
            IN [i |-> st.i + node.literalLength,
                out |-> flushed,
                literalSrc |-> st.i,
                numLiterals |-> node.literalLength,
                predictedLength |-> st.predictedLength]
       ELSE [i |-> st.i + node.matchLength,
             out |-> st.out \o EmitMatchChunk(buf, st.literalSrc,
                         st.numLiterals, node.matchLength, node.matchOffset),
             literalSrc |-> -1,
             numLiterals |-> 0,
             predictedLength |-> st.predictedLength]

RECURSIVE Pass2Loop(_, _, _, _, _)
Pass2Loop(buf, inLen, optList, n, st) ==
    IF st.i >= inLen THEN st
    ELSE IF n > 1
    THEN Pass2Loop(buf, inLen, optList, n - (n \div 2),
             Pass2Loop(buf, inLen, optList, n \div 2, st))
    ELSE Pass2Body(buf, optList, st)

\* Everything after pass 1: predictedLength = optList[0].totalCost + 1,
\* pass 2, the housekeeping check and the final chunk.  Returns the output
\* bytes (the return value is their number), the DP array and
\* predictedLength as it stands at the end of the function.
OptimalPass2(buf, inLen, optList) ==
    LET st == Pass2Loop(buf, inLen, optList, inLen,
                  [i |-> 0, out |-> <<LZ4FH_MAGIC>>, literalSrc |-> -1,
                   numLiterals |-> 0,
                   predictedLength |-> At(optList, 0).totalCost + 1])
    IN [out |-> st.out \o EmitEndChunk(buf, st.literalSrc, st.numLiterals),
        optList |-> optList,
        predictedLength |-> st.predictedLength + 1
                            + (IF st.numLiterals = 0 THEN 1 ELSE 0)]

compressBufferOptimally(buf, inLen) ==
    OptimalPass2(buf, inLen, OptimalPass1(buf, inLen))

(***************************************************************************)
(* uncompressBuffer(outBuf, inBuf, inLen).  inBuf is the whole input array *)
(* (inLen valid bytes, then whatever the array holds), outBuf the output   *)
(* array of MAX_SIZE bytes as it is on entry.  The loop state holds inPtr  *)
(* and outPtr as offsets (inPos, outPos), the output array, the exit taken *)
(* (status), the matches expanded so far as <<outPos, matchLen,            *)
(* matchOffset>> and srcEnd, one past the highest output index a match     *)
(* copy has read.  All reads of inBuf are at inPtr, so inPos is one past   *)
(* the highest input index read; all writes of outBuf are at outPtr.       *)
(***************************************************************************)
\* *p for p inside the array; 0 stands for a read the chunk never uses.
Peek(inBuf, p) == IF p < Len(inBuf) THEN At(inBuf, p) ELSE 0

\* memcpy(outPtr, inPtr, literalLen)
CopyLiterals(outBuf, outPos, inBuf, inPos, literalLen) ==
    Tuple([k \in 1..Len(outBuf) |->
              IF k > outPos /\ k <= outPos + literalLen
              THEN At(inBuf, inPos + (k - 1 - outPos))
              ELSE outBuf[k]])

\* while (matchLen-- != 0) *outPtr++ = *srcPtr++;
\* Loop state: outBuf, outPos, srcPos and the bytes left to copy.
CopyMatchBody(st) ==
    [outBuf |-> [st.outBuf EXCEPT ![st.outPos + 1] = At(st.outBuf, st.srcPos)],
     outPos |-> st.outPos + 1,
     srcPos |-> st.srcPos + 1,
     left |-> st.left - 1]

RECURSIVE CopyMatchLoop(_, _)
CopyMatchLoop(n, st) ==
    IF st.left = 0 THEN st
    ELSE IF n > 1
    THEN CopyMatchLoop(n - (n \div 2), CopyMatchLoop(n \div 2, st))
    ELSE CopyMatchBody(st)

\* The match copied as memcpy of non-overlapping regions would: every byte
\* is read from the buffer as it was before the copy.
CopyMatchSnapshot(outBuf, outPos, matchOffset, matchLen) ==
    Tuple([k \in 1..Len(outBuf) |->
              IF k > outPos /\ k <= outPos + matchLen
              THEN At(outBuf, matchOffset + (k - 1 - outPos))
              ELSE outBuf[k]])

CopyMatch(outBuf, outPos, matchOffset, matchLen) ==
    CopyMatchLoop(matchLen, [outBuf |-> outBuf, outPos |-> outPos,
                             srcPos |-> matchOffset, left |-> matchLen]).outBuf

\* OverrunL without the test of the output position.
OverrunLInputOnly(outPos, inPos, literalLen, inLen) ==
    inPos + literalLen > inLen

\* (outPtr - outBuf) + literalLen > MAX_SIZE ||
\* (inPtr - inBuf) + literalLen > inLen
OverrunL(outPos, inPos, literalLen, inLen) ==
    outPos + literalLen > MAX_SIZE \/ inPos + literalLen > inLen

\* (outPtr - outBuf) + matchLen > MAX_SIZE ||
\* (srcPtr - outBuf) + matchLen > MAX_SIZE
OverrunM(outPos, srcPos, matchLen) ==
    outPos + matchLen > MAX_SIZE \/ srcPos + matchLen > MAX_SIZE

\* One iteration of while (true).
ChunkBody(inBuf, inLen, st) ==
    LET p0 == st.inPos
        mixedLen == Peek(inBuf, p0)
        nibbleLit == mixedLen \div 16
        litExt == nibbleLit = INITIAL_LEN
        literalLen == IF litExt THEN nibbleLit + Peek(inBuf, p0 + 1)
                      ELSE nibbleLit
        p1 == IF litExt THEN p0 + 2 ELSE p0 + 1
        overrunL == literalLen # 0
                    /\ OverrunL(st.outPos, p1, literalLen, inLen)
        outBuf1 == IF literalLen # 0
                   THEN CopyLiterals(st.outBuf, st.outPos, inBuf, p1, literalLen)
                   ELSE st.outBuf
        outPos1 == st.outPos + literalLen
        p2 == p1 + literalLen
        nibbleMatch == mixedLen % 16
        matchExt == nibbleMatch = INITIAL_LEN
        addon == Peek(inBuf, p2)
        p3 == IF matchExt THEN p2 + 1 ELSE p2
        eod == matchExt /\ addon = EOD_MATCH_TOKEN
        matchLen == (IF matchExt
                     THEN (IF addon = EMPTY_MATCH_TOKEN THEN 0 - MIN_MATCH_LEN
                           ELSE nibbleMatch + addon)
                     ELSE nibbleMatch) + MIN_MATCH_LEN
        matchOffset == Peek(inBuf, p3) + 256 * Peek(inBuf, p3 + 1)
        p4 == p3 + 2
        overrunM == OverrunM(outPos1, matchOffset, matchLen)
        \* one past the last index of inBuf this iteration dereferences
        readEnd == IF overrunL THEN p1
                   ELSE IF eod \/ matchLen = 0 THEN p3
                   ELSE p4
    IN IF readEnd > Len(inBuf)
       THEN [st EXCEPT !.status = "wild"]
       ELSE IF overrunL
       THEN [st EXCEPT !.status = "overrunL", !.inPos = p1]
       ELSE IF eod
       THEN [st EXCEPT !.status = "eod", !.inPos = p3,
                       !.outBuf = outBuf1, !.outPos = outPos1]
       ELSE IF matchLen = 0
       THEN [st EXCEPT !.inPos = p3, !.outBuf = outBuf1, !.outPos = outPos1]
       ELSE IF overrunM
       THEN [st EXCEPT !.status = "overrunM", !.inPos = p4,
                       !.outBuf = outBuf1, !.outPos = outPos1]
       ELSE [st EXCEPT !.inPos = p4,
                       !.outBuf = CopyMatch(outBuf1, outPos1, matchOffset,
                                            matchLen),
                       !.outPos = outPos1 + matchLen,
                       !.matches = Append(st.matches,
                                       <<outPos1, matchLen, matchOffset>>),
                       !.srcEnd = IF matchOffset + matchLen > st.srcEnd
                                  THEN matchOffset + matchLen ELSE st.srcEnd]

\* At most n iterations; every iteration reads at least one byte of inBuf.
RECURSIVE ChunkLoop(_, _, _, _)
ChunkLoop(inBuf, inLen, n, st) ==
    IF st.status # "run" THEN st
    ELSE IF n > 1
    THEN ChunkLoop(inBuf, inLen, n - (n \div 2),
             ChunkLoop(inBuf, inLen, n \div 2, st))
    ELSE ChunkBody(inBuf, inLen, st)

\* uncompressBuffer returning 0 when input is left after the end-of-data
\* symbol.
uncompressBufferStrict(outBuf, inBuf, inLen) ==
    LET start == [inPos |-> 1, outPos |-> 0, outBuf |-> outBuf,
                  status |-> "run", matches |-> <<>>, srcEnd |-> 0]
        st == IF Peek(inBuf, 0) # LZ4FH_MAGIC
              THEN [start EXCEPT !.status = "badMagic"]
              ELSE ChunkLoop(inBuf, inLen, Len(inBuf), start)
    IN [ret |-> IF st.status = "eod" /\ st.inPos = inLen THEN st.outPos ELSE 0,
        status |-> st.status,
        outBuf |-> st.outBuf,
        outPos |-> st.outPos,
        inPos |-> st.inPos,
        matches |-> st.matches,
        srcEnd |-> st.srcEnd,
        warned |-> st.status = "eod" /\ st.inPos # inLen]

\* uncompressBuffer skipping the first byte without comparing it.
uncompressBufferAnyMagic(outBuf, inBuf, inLen) ==
    LET start == [inPos |-> 1, outPos |-> 0, outBuf |-> outBuf,
                  status |-> "run", matches |-> <<>>, srcEnd |-> 0]
        st == ChunkLoop(inBuf, inLen, Len(inBuf), start)
    IN [ret |-> IF st.status = "eod" THEN st.outPos ELSE 0,
        status |-> st.status,
        outBuf |-> st.outBuf,
        outPos |-> st.outPos,
        inPos |-> st.inPos,
        matches |-> st.matches,
        srcEnd |-> st.srcEnd,
        warned |-> st.status = "eod" /\ st.inPos # inLen]

\* status: "badMagic", "overrunL", "overrunM" (return 0), "eod" (return
\* outPtr - outBuf), or "wild" when the loop runs off the end of the input
\* array (behaviour undefined; ret is then 0 and means nothing).
\* warned: the "used only" warning was printed.
uncompressBuffer(outBuf, inBuf, inLen) ==
    LET start == [inPos |-> 1, outPos |-> 0, outBuf |-> outBuf,
                  status |-> "run", matches |-> <<>>, srcEnd |-> 0]
        st == IF Peek(inBuf, 0) # LZ4FH_MAGIC
              THEN [start EXCEPT !.status = "badMagic"]
              ELSE ChunkLoop(inBuf, inLen, Len(inBuf), start)
    IN [ret |-> IF st.status = "eod" THEN st.outPos ELSE 0,
        status |-> st.status,
        outBuf |-> st.outBuf,
        outPos |-> st.outPos,
        inPos |-> st.inPos,
        matches |-> st.matches,
        srcEnd |-> st.srcEnd,
        warned |-> st.status = "eod" /\ st.inPos # inLen]

(***************************************************************************)
(* Screen holes.  inBuf is an array of MAX_SIZE bytes.                     *)
(***************************************************************************)
\* ZeroHole clearing the hole up to its last byte but one.
ZeroHoleShort(inBuf, inPtr) ==
    Tuple([k \in 1..Len(inBuf) |->
              IF k > inPtr /\ k < inPtr + 8 THEN 0 ELSE inBuf[k]])

\* memset(inPtr, 0, 8)
ZeroHole(inBuf, inPtr) ==
    Tuple([k \in 1..Len(inBuf) |->
              IF k > inPtr /\ k <= inPtr + 8 THEN 0 ELSE inBuf[k]])

\* inPtr = inBuf + 120; while (inPtr < inBuf + MAX_SIZE) { ...; inPtr += 128; }
RECURSIVE zeroHolesFrom(_, _)
zeroHolesFrom(inBuf, inPtr) ==
    IF inPtr < MAX_SIZE
    THEN zeroHolesFrom(ZeroHole(inBuf, inPtr), inPtr + 128)
    ELSE inBuf

zeroHoles(inBuf) == zeroHolesFrom(inBuf, 120)

\* CopyAfter with the loop running upward, from inPtr[0] to inPtr[7]: the
\* first six bytes of the hole receive what the hole held.
RECURSIVE CopyAfterUpward(_, _, _)
CopyAfterUpward(inBuf, inPtr, i) ==
    IF i >= 0
    THEN CopyAfterUpward([inBuf EXCEPT ![inPtr + (7 - i) + 1]
                                         = At(inBuf, inPtr + (7 - i) + 2)],
                         inPtr, i - 1)
    ELSE inBuf

\* for (int i = 7; i >= 0; i--) inPtr[i] = inPtr[i + 2];
RECURSIVE CopyAfter(_, _, _)
CopyAfter(inBuf, inPtr, i) ==
    IF i >= 0
    THEN CopyAfter([inBuf EXCEPT ![inPtr + i + 1] = At(inBuf, inPtr + i + 2)],
                   inPtr, i - 1)
    ELSE inBuf

\* for (int i = 0; i < 8; i++) inPtr[i] = inPtr[i - 2];
RECURSIVE CopyBefore(_, _, _)
CopyBefore(inBuf, inPtr, i) ==
    IF i < 8
    THEN CopyBefore([inBuf EXCEPT ![inPtr + i + 1] = At(inBuf, inPtr + i - 2)],
                    inPtr, i + 1)
    ELSE inBuf

\* The body of the loop of fillHoles for the hole at inPtr.
FillHole(inBuf, inPtr) ==
    LET checkp == inPtr + 8
        useAfter == checkp < MAX_SIZE
                    /\ At(inBuf, checkp) = At(inBuf, checkp + 2)
                    /\ At(inBuf, checkp + 1) = At(inBuf, checkp + 3)
    IN IF useAfter THEN CopyAfter(inBuf, inPtr, 7)
       ELSE CopyBefore(inBuf, inPtr, 0)

RECURSIVE fillHolesFrom(_, _)
fillHolesFrom(inBuf, inPtr) ==
    IF inPtr < MAX_SIZE
    THEN fillHolesFrom(FillHole(inBuf, inPtr), inPtr + 128)
    ELSE inBuf

fillHoles(inBuf) == fillHolesFrom(inBuf, 120)

(***************************************************************************)
(* compressFile and uncompressFile.  A file is the sequence of its bytes;  *)
(* the open, read and write calls are taken to succeed.  An array the code *)
(* does not initialise holds the byte stale in every cell it has not       *)
(* written.                                                                *)
(***************************************************************************)
\* An array of n bytes whose first Len(bytes) cells hold bytes.
Array(bytes, n, stale) ==
    Tuple([k \in 1..(IF Len(bytes) > n THEN Len(bytes) ELSE n) |->
              IF k <= Len(bytes) THEN bytes[k] ELSE stale])

NoFile == [exists |-> FALSE, data |-> <<>>]

\* The parser useGreedyParsing selects; the output bytes.
compressBuffer(useGreedyParsing, inBuf, inLen) ==
    IF useGreedyParsing THEN compressBufferGreedily(inBuf, inLen).out
    ELSE compressBufferOptimally(inBuf, inLen).out

\* VerifyBytes with the loop stopping one byte early.
VerifyBytesShort(inBuf, verifyBuf, sourceLen) ==
    \A ii \in 0..(sourceLen - 2) : At(inBuf, ii) = At(verifyBuf, ii)

\* byte-for-byte comparison: for (ii = 0; ii < sourceLen; ii++)
\*     if (inBuf[ii] != verifyBuf[ii]) goto bail;
VerifyBytes(inBuf, verifyBuf, sourceLen) ==
    \A ii \in 0..(sourceLen - 1) : At(inBuf, ii) = At(verifyBuf, ii)

\* compressFile from the comparison of uncompressedLen with sourceLen to
\* the end: write the output when it is verified, clean up at bail.  un is
\* what uncompressBuffer returned and left in verifyBuf.  Returns result
\* and the output file as the call leaves it.
WriteVerified(inBuf, sourceLen, outBuf, outSize, toFile, un) ==
    IF outSize # 0 /\ un.ret = sourceLen
       /\ VerifyBytes(inBuf, un.outBuf, sourceLen)
    THEN [result |-> 0,
          outFile |-> IF toFile THEN [exists |-> TRUE, data |-> outBuf]
                      ELSE NoFile,
          uncompressedLen |-> un.ret]
    ELSE [result |-> -1,
          outFile |-> NoFile,
          uncompressedLen |-> IF outSize # 0 THEN un.ret ELSE 0]

\* compressFile from "if (outSize == 0)" to the end: verify the selected
\* output against the selected input, write it, clean up at bail.
verifyAndWrite(inBuf, sourceLen, outBuf, outSize, toFile, stale) ==
    WriteVerified(inBuf, sourceLen, outBuf, outSize, toFile,
        uncompressBuffer(Tuple([k \in 1..MAX_SIZE |-> 204]),
            Array(outBuf, MAX_SIZE + MAX_EXPANSION, stale), outSize))

\* What compressFile returns and leaves behind, v being the outcome of the
\* verification of the selected inBuf and outBuf.
Finished(choice, inBuf, sourceLen, outBuf, v) ==
    [result |-> v.result, outFile |-> v.outFile, stage |-> "done",
     sourceLen |-> sourceLen, choice |-> choice,
     inBuf |-> inBuf, outBuf |-> outBuf, outSize |-> Len(outBuf),
     uncompressedLen |-> v.uncompressedLen]

\* compressFile once inBuf, outBuf and outSize are selected.
Selected(choice, inBuf, sourceLen, outBuf, toFile, stale) ==
    Finished(choice, inBuf, sourceLen, outBuf,
        verifyAndWrite(inBuf, sourceLen, outBuf, Len(outBuf), toFile, stale))

\* UseZeroed taking the zero-filled copy only when its output is strictly
\* smaller.
UseZeroedStrictly(outSize1, outSize2) == outSize1 < outSize2

\* if (outSize1 <= outSize2): "using zeroed-out holes"
UseZeroed(outSize1, outSize2) == outSize1 <= outSize2

\* The selection between the two compressed copies, and the rest of
\* compressFile.  The record keeps both copies next to the selected one.
Select(inBuf1, outBuf1, inBuf2, outBuf2, sourceLen, toFile, stale) ==
    (IF UseZeroed(Len(outBuf1), Len(outBuf2))
     THEN Selected("zeroed", inBuf1, sourceLen, outBuf1, toFile, stale)
     ELSE Selected("filled", inBuf2, sourceLen, outBuf2, toFile, stale))
    @@ [inBuf1 |-> inBuf1, inBuf2 |-> inBuf2,
        outBuf1 |-> outBuf1, outBuf2 |-> outBuf2,
        outSize1 |-> Len(outBuf1), outSize2 |-> Len(outBuf2)]

\* Both copies compressed with the parser useGreedyParsing selects.
CompressBoth(inBuf1, inBuf2, sourceLen, useGreedyParsing, toFile, stale) ==
    Select(inBuf1, compressBuffer(useGreedyParsing, inBuf1, sourceLen),
           inBuf2, compressBuffer(useGreedyParsing, inBuf2, sourceLen),
           sourceLen, toFile, stale)

\* CompressTwice with sourceLen = MAX_SIZE: the last 8 bytes are kept.
CompressTwiceWhole(read, useGreedyParsing, toFile, stale) ==
    CompressBoth(zeroHoles(read),
                 fillHoles(Array(Bytes(read, 0, MAX_SIZE), MAX_SIZE, stale)),
                 MAX_SIZE, useGreedyParsing, toFile, stale)

\* The else branch of "if (doPreserveHoles)": sourceLen = MIN_SIZE, inBuf2
\* a copy of the first sourceLen bytes, zeroHoles(inBuf1), fillHoles(inBuf2).
\* read is inBuf1 as the file was read into it.
CompressTwice(read, useGreedyParsing, toFile, stale) ==
    CompressBoth(zeroHoles(read),
                 fillHoles(Array(Bytes(read, 0, MIN_SIZE), MAX_SIZE, stale)),
                 MIN_SIZE, useGreedyParsing, toFile, stale)

\* The branch "if (doPreserveHoles)": sourceLen = fileLen, input untouched.
CompressPreserved(read, sourceLen, useGreedyParsing, toFile, stale) ==
    Selected("preserved", read, sourceLen,
             compressBuffer(useGreedyParsing, read, sourceLen), toFile, stale)

\* compressFile(outFileName, inFileName, doPreserveHoles, useGreedyParsing);
\* toFile is outFileName != NULL.
compressFile(file, doPreserveHoles, useGreedyParsing, toFile, stale) ==
    IF Len(file) < MIN_SIZE \/ Len(file) > MAX_SIZE
    THEN [result |-> -1, outFile |-> NoFile, stage |-> "size"]
    ELSE IF doPreserveHoles
    THEN CompressPreserved(Array(file, MAX_SIZE, stale), Len(file),
                           useGreedyParsing, toFile, stale)
    ELSE CompressTwice(Array(file, MAX_SIZE, stale),
                       useGreedyParsing, toFile, stale)

\* uncompressFile from "if (outSize == 0)" on.  un is what uncompressBuffer
\* returned and left behind.
WriteUncompressed(un) ==
    IF un.ret = 0
    THEN [result |-> -1, outFile |-> NoFile, stage |-> "done", un |-> un]
    ELSE [result |-> 0,
          outFile |-> [exists |-> TRUE, data |-> Bytes(un.outBuf, 0, un.ret)],
          stage |-> "done", un |-> un]

\* uncompressFile(outFileName, inFileName).
uncompressFile(file, stale) ==
    IF Len(file) < 10 \/ Len(file) > MAX_SIZE + MAX_EXPANSION
    THEN [result |-> -1, outFile |-> NoFile, stage |-> "size"]
    ELSE WriteUncompressed(
             uncompressBuffer(Tuple([k \in 1..MAX_SIZE |-> stale]),
                 Array(file, MAX_SIZE + MAX_EXPANSION, stale), Len(file)))

(***************************************************************************)
(* Inputs.                                                                 *)
(***************************************************************************)
\* Longest buffer of the exhaustive family (all buffers over two byte values).
MaxShortLen == 7

\* The compressed files of the model have at most this many chunks before
\* the final one.
MaxChunks == 2

\* Bytes an uninitialised cell may hold.
StaleBytes == {0, EOD_MATCH_TOKEN}

\* make-test-pic's WriteNoMatch, first block: for ic: ic, ic+1, ic+2, ic+3.
\* No four bytes in a row repeat, so the match finder finds nothing.
NoMatch(n) == Tuple([k \in 1..n |-> ((k - 1) \div 4) + ((k - 1) % 4)])

Lits(n, base) == Tuple([k \in 1..n |-> base + k])
Run(n, v) == Tuple([k \in 1..n |-> v])

ShortBuffers == UNION {[1..n -> {0, 1}] : n \in 0..MaxShortLen}

\* Literal runs and matches around the nibble limit of 15 and the first
\* match-length extension (19).
ThresholdBuffers ==
    {Lits(k, 10) \o Run(r, 1) \o Lits(t, 100) :
        k \in {0, 1, 14, 15, 16}, r \in {5} \cup 15..20, t \in {0, 1}}

ValidLens == {MIN_SIZE, MAX_SIZE}

\* Images of a valid length: nothing matches; a 15-byte phrase opens and
\* closes the image; the image ends in a run; the image is one run.
ImageBuffers ==
    {NoMatch(n) : n \in ValidLens}
    \cup {Lits(15, 200) \o NoMatch(n - 30) \o Lits(15, 200) : n \in ValidLens}
    \cup {NoMatch(n - 20) \o Run(20, 255) : n \in ValidLens}
    \cup {Run(n, 0) : n \in ValidLens}

Buffers == ShortBuffers \cup ThresholdBuffers \cup ImageBuffers

\* buf with bytes written over it from index at on.
Patch(buf, at, bytes) ==
    Tuple([k \in 1..Len(buf) |->
              IF k > at /\ k <= at + Len(bytes) THEN bytes[k - at] ELSE buf[k]])

\* Image files of a valid length: nothing matches; zeros follow the first
\* screen hole; eight zeros open the image; one byte all over, in a file
\* that ends inside the last screen hole.
ImageFiles ==
    {NoMatch(MAX_SIZE),
     Patch(NoMatch(MIN_SIZE), 128, <<0, 0, 0, 9>>),
     Patch(NoMatch(MAX_SIZE), 0, Run(8, 0)),
     Run(MIN_SIZE + 3, 5)}

\* Files of a length compressFile refuses.
RefusedFiles == {Run(n, 0) : n \in {0, MIN_SIZE - 1, MAX_SIZE + 1}}

\* Packed files are put together from chunks in the encoders' format.
\* A chunk of literals and a match of matchLen bytes at matchOffset.
MatchChunk(lits, matchLen, matchOffset) ==
    EmitMatchChunk(lits, 0, Len(lits), matchLen, matchOffset)

\* A chunk of literals and the no-match symbol.
LiteralChunk(lits) ==
    (IF Len(lits) < INITIAL_LEN THEN <<(16 * Len(lits) + 15) % 256>>
     ELSE <<255, Len(lits) - INITIAL_LEN>>)
    \o lits \o <<EMPTY_MATCH_TOKEN>>

\* The final chunk.
EndChunk(lits) == EmitEndChunk(lits, 0, Len(lits))

RECURSIVE Repeat(_, _)
Repeat(chunk, q) == IF q <= 0 THEN <<>> ELSE chunk \o Repeat(chunk, q - 1)

\* Chunks that expand to exactly n bytes, 1 <= n: literals, then matches of
\* MAX_MATCH_LEN bytes at offset 0.
FillTo(n) ==
    LET q == (n - 1) \div MAX_MATCH_LEN
        l == n - MAX_MATCH_LEN * q
    IN IF q = 0 THEN LiteralChunk(Lits(l, 0))
       ELSE MatchChunk(Lits(l, 0), MAX_MATCH_LEN, 0)
            \o Repeat(MatchChunk(<<>>, MAX_MATCH_LEN, 0), q - 1)

\* "ab" and a match over itself; a seed byte and a match of 19 (the first
\* length with an extension byte); a bare match; 15 literals (the first
\* count with an extension byte) and no match; a match whose source passes
\* the end of the screen.
ChunkSet ==
    {MatchChunk(<<97, 98>>, 4, 0),
     MatchChunk(<<99>>, 19, 0),
     MatchChunk(<<>>, 5, 1),
     LiteralChunk(Lits(15, 32)),
     MatchChunk(<<100>>, 4, MAX_SIZE - 3)}

EndChunks == {EndChunk(<<>>), EndChunk(<<101>>)}

RECURSIVE Heads(_)
Heads(n) ==
    IF n = 0 THEN {<<>>}
    ELSE LET H == Heads(n - 1)
         IN H \cup {h \o c : h \in H, c \in ChunkSet}

Streams == {<<LZ4FH_MAGIC>> \o h \o e : h \in Heads(MaxChunks), e \in EndChunks}

\* Streams that fill the screen to within 4 bytes and then add 4 more.
OverflowStreams ==
    {<<LZ4FH_MAGIC>> \o FillTo(MAX_SIZE - t) \o x \o EndChunk(<<>>) :
        t \in 0..4,
        x \in {LiteralChunk(<<1, 2, 3, 4>>), MatchChunk(<<>>, 4, 0),
               MatchChunk(<<9>>, 4, 0)}}

\* What a stream expands to.
Expansion(s) ==
    LET un == uncompressBuffer(Tuple([k \in 1..MAX_SIZE |-> 0]),
                  Array(s, MAX_SIZE + MAX_EXPANSION, 0), Len(s))
    IN Bytes(un.outBuf, 0, un.ret)

\* Streams of MIN_SIZE and of MAX_SIZE bytes, and one of MIN_SIZE bytes
\* that differs from the first in its last byte.
ScreenStreams ==
    {<<LZ4FH_MAGIC>> \o FillTo(MIN_SIZE) \o EndChunk(<<>>),
     <<LZ4FH_MAGIC>> \o FillTo(MAX_SIZE) \o EndChunk(<<>>),
     <<LZ4FH_MAGIC>> \o FillTo(MIN_SIZE - 1) \o EndChunk(<<7>>)}

\* What an encoder may leave for the verification: a stream of a screen, of
\* a byte less, of no bytes at all, one the decoder refuses.
EncoderOutputs ==
    ScreenStreams
    \cup {<<LZ4FH_MAGIC>> \o FillTo(MIN_SIZE - 1) \o EndChunk(<<>>),
          <<>>,
          <<LZ4FH_MAGIC + 1>> \o FillTo(MIN_SIZE) \o EndChunk(<<>>)}

ScreenFiles == {Expansion(s) : s \in ScreenStreams}

\* Whole streams, every truncation of one, streams with bytes after the
\* end-of-data symbol, streams with another first byte.
PackedFiles ==
    UNION {{SubSeq(s, 1, n) : n \in 0..Len(s)} : s \in Streams}
    \cup {s \o t : s \in Streams, t \in {<<0>>, <<31, 65, EOD_MATCH_TOKEN>>}}
    \cup {[s EXCEPT ![1] = b] : s \in Streams, b \in {0, LZ4FH_MAGIC + 1}}
    \cup OverflowStreams

VARIABLES
    file,   \* the bytes of the input: a buffer, an image file, a packed file
    opts,   \* the command line: doPreserveHoles, useGreedyParsing, toFile
    junk,   \* the byte uninitialised memory holds
    g,      \* what compressBufferGreedily (or zeroHoles) made of file
    o,      \* what compressBufferOptimally (or fillHoles) made of file
    d,      \* what uncompressBuffer made of g and of o, or of file; what
            \* findLongestMatch returned
    res     \* what compressFile or uncompressFile returned and left behind

vars == <<file, opts, junk, g, o, d, res>>

Idle == [done |-> FALSE]
NoOpts == [preserve |-> FALSE, greedy |-> FALSE, toFile |-> FALSE]

(***************************************************************************)
(* SpecCodec: the two encoders and the decoder as functions of a buffer.   *)
(***************************************************************************)
InitCodec ==
    /\ file \in Buffers
    /\ opts = NoOpts
    /\ junk \in StaleBytes
    /\ g = Idle /\ o = Idle /\ d = Idle /\ res = Idle

CompressGreedily ==
    /\ ~g.done
    /\ g' = [done |-> TRUE] @@ compressBufferGreedily(file, Len(file))
    /\ UNCHANGED <<file, opts, junk, o, d, res>>

CompressOptimally ==
    /\ g.done /\ ~o.done
    /\ o' = [done |-> TRUE] @@ compressBufferOptimally(file, Len(file))
    /\ UNCHANGED <<file, opts, junk, g, d, res>>

\* Decode an encoder's output as compressFile does to verify it.
Decoded(out) ==
    uncompressBuffer(Tuple([k \in 1..MAX_SIZE |-> 204]),
        Array(out, MAX_SIZE + MAX_EXPANSION, junk), Len(out))

Uncompress ==
    /\ g.done /\ o.done /\ ~d.done
    /\ d' = [done |-> TRUE, greedy |-> Decoded(g.out), optimal |-> Decoded(o.out)]
    /\ UNCHANGED <<file, opts, junk, g, o, res>>

NextCodec == CompressGreedily \/ CompressOptimally \/ Uncompress

SpecCodec == InitCodec /\ [][NextCodec]_vars

(***************************************************************************)
(* SpecUncompress: the decoder on a packed file, called directly and as    *)
(* fhpack -u does.                                                         *)
(***************************************************************************)
InitUncompress ==
    /\ file \in PackedFiles
    /\ opts = NoOpts
    /\ junk \in StaleBytes
    /\ g = Idle /\ o = Idle /\ d = Idle /\ res = Idle

\* The output array on entry and the array that holds the file.
FreshOut == Tuple([k \in 1..MAX_SIZE |-> junk])
InArray == Array(file, MAX_SIZE + MAX_EXPANSION, junk)

UncompressBuffer ==
    /\ ~d.done
    /\ d' = [done |-> TRUE, un |-> uncompressBuffer(FreshOut, InArray, Len(file))]
    /\ UNCHANGED <<file, opts, junk, g, o, res>>

UncompressFile ==
    /\ d.done /\ ~res.done
    /\ res' = [done |-> TRUE] @@ uncompressFile(file, junk)
    /\ UNCHANGED <<file, opts, junk, g, o, d>>

NextUncompress == UncompressBuffer \/ UncompressFile

SpecUncompress == InitUncompress /\ [][NextUncompress]_vars

(***************************************************************************)
(* SpecVerify: compressFile from "if (outSize == 0)" on, for an image the  *)
(* file holds and any output an encoder may have left for it.  g.out is    *)
(* outBuf and outSize its length; the input is the file as read.           *)
(***************************************************************************)
InitVerify ==
    /\ file \in ScreenFiles
    /\ opts \in [preserve : BOOLEAN, greedy : {FALSE}, toFile : BOOLEAN]
    /\ junk \in StaleBytes
    /\ g \in {[done |-> TRUE, out |-> s, assertOk |-> TRUE] : s \in EncoderOutputs}
    /\ o = Idle /\ d = Idle /\ res = Idle

SourceLen == IF opts.preserve THEN Len(file) ELSE MIN_SIZE

VerifyAndWrite ==
    /\ g.done /\ ~res.done
    /\ res' = [done |-> TRUE]
              @@ verifyAndWrite(Array(file, MAX_SIZE, junk), SourceLen,
                                g.out, Len(g.out), opts.toFile, junk)
    /\ UNCHANGED <<file, opts, junk, g, o, d>>

NextVerify == VerifyAndWrite

SpecVerify == InitVerify /\ [][NextVerify]_vars

(***************************************************************************)
(* Spec: fhpack -c / -t on an image file.                                  *)
(***************************************************************************)
Init ==
    /\ file \in ImageFiles \cup RefusedFiles
    /\ opts \in [preserve : BOOLEAN, greedy : BOOLEAN, toFile : BOOLEAN]
    /\ junk \in StaleBytes
    /\ g = Idle /\ o = Idle /\ d = Idle /\ res = Idle

CompressFile ==
    /\ ~res.done
    /\ res' = [done |-> TRUE]
              @@ compressFile(file, opts.preserve, opts.greedy, opts.toFile, junk)
    /\ UNCHANGED <<file, opts, junk, g, o, d>>

Next == CompressFile

Spec == Init /\ [][Next]_vars

(***************************************************************************)
(* SpecAllZero: the two encoders on images of zero bytes, make-test-pic's  *)
(* allzero file among them.  The encoders depend on the size of the screen *)
(* only through the assert, so they are run on that file at its real size; *)
(* uncompressBuffer expands into a screen of MAX_SIZE bytes, so the        *)
(* verification pass is run on the images that fit one.                    *)
(***************************************************************************)
\* for (int i = 0; i < 8192; i++) putc('\0', fp);
ALL_ZERO_LEN == 8192

\* Longest of the short runs of zero bytes.
MaxZeroLen == 40

AllZeroFiles ==
    {Run(n, 0) : n \in (0..MaxZeroLen) \cup ValidLens \cup {ALL_ZERO_LEN}}

InitAllZero ==
    /\ file \in AllZeroFiles
    /\ opts = NoOpts
    /\ junk = 0
    /\ g = Idle /\ o = Idle /\ d = Idle /\ res = Idle

\* uncompressBuffer on both outputs, for an image compressFile accepts or a
\* shorter one.
VerifyScreen ==
    /\ g.done /\ o.done /\ ~d.done
    /\ Len(file) <= MAX_SIZE
    /\ d' = [done |-> TRUE, greedy |-> Decoded(g.out), optimal |-> Decoded(o.out)]
    /\ UNCHANGED <<file, opts, junk, g, o, res>>

NextAllZero == CompressGreedily \/ CompressOptimally \/ VerifyScreen

SpecAllZero == InitAllZero /\ [][NextAllZero]_vars

(***************************************************************************)
(* SpecMatch: findLongestMatch at a position of a buffer, as both parsers  *)
(* call it (matchPtr inside inBuf).                                        *)
(***************************************************************************)
\* Buffers longer than a match can be: zero bytes, and zero bytes with a
\* phrase that comes back.
LongBuffers ==
    {Run(MAX_MATCH_LEN + 3, 0),
     <<1, 2, 3, 4, 5>> \o Run(MAX_MATCH_LEN, 0) \o <<1, 2, 3, 4, 9>>}

MatchBuffers == ShortBuffers \cup ThresholdBuffers \cup LongBuffers

\* The positions tried: all of a buffer no longer than a match, the first
\* and the last ones of a longer buffer.
Positions(buf) ==
    IF Len(buf) <= MAX_MATCH_LEN THEN 0..(Len(buf) - 1)
    ELSE (0..6) \cup ((Len(buf) - 6)..(Len(buf) - 1))

InitMatch ==
    /\ file \in MatchBuffers
    /\ opts = NoOpts
    /\ junk = 0
    /\ g = Idle /\ o = Idle /\ d = Idle /\ res = Idle

FindLongestMatch ==
    /\ ~d.done
    /\ \E matchPtr \in Positions(file) :
          d' = [done |-> TRUE, matchPtr |-> matchPtr]
               @@ findLongestMatch(file, Len(file), matchPtr)
    /\ UNCHANGED <<file, opts, junk, g, o, res>>

NextMatch == FindLongestMatch

SpecMatch == InitMatch /\ [][NextMatch]_vars

(***************************************************************************)
(* SpecHoles: zeroHoles and fillHoles on a buffer of MAX_SIZE bytes.  g    *)
(* is what zeroHoles leaves of the buffer, o what fillHoles leaves of it.  *)
(***************************************************************************)
\* The two bytes before a hole, the eight bytes of a hole, the four bytes
\* after a hole (a 2-byte pattern that repeats, or one that does not).
BeforeBytes == {<<42, 85>>, <<7, 7>>, <<0, 9>>}
HoleBytes == {Run(8, 0), <<1, 2, 3, 4, 5, 6, 7, 8>>, Run(8, 255)}
AfterBytes ==
    {<<42, 85, 42, 85>>, <<3, 3, 3, 3>>, <<42, 85, 42, 86>>,
     <<42, 85, 43, 85>>, <<1, 2, 3, 4>>, <<0, 0, 0, 0>>}

\* A page whose rows all end in before and hole and, from the second row
\* on, begin with after.
HoleImage(before, hole, after) ==
    Tuple([k \in 1..MAX_SIZE |->
              LET col == (k - 1) % 128
              IN IF col >= 120 THEN hole[col - 119]
                 ELSE IF col >= 118 THEN before[col - 117]
                 ELSE IF col < 4 /\ k > 128 THEN after[col + 1]
                 ELSE 10 + (k % 200)])

HoleImages ==
    {HoleImage(b, h, a) : b \in BeforeBytes, h \in HoleBytes, a \in AfterBytes}

InitHoles ==
    /\ file \in HoleImages
    /\ opts = NoOpts
    /\ junk = 0
    /\ g = Idle /\ o = Idle /\ d = Idle /\ res = Idle

ZeroHoles ==
    /\ ~g.done
    /\ g' = [done |-> TRUE, inBuf |-> zeroHoles(file)]
    /\ UNCHANGED <<file, opts, junk, o, d, res>>

FillHoles ==
    /\ ~o.done
    /\ o' = [done |-> TRUE, inBuf |-> fillHoles(file)]
    /\ UNCHANGED <<file, opts, junk, g, d, res>>

NextHoles == ZeroHoles \/ FillHoles

SpecHoles == InitHoles /\ [][NextHoles]_vars

(***************************************************************************)
(* Claims.                                                                 *)
(***************************************************************************)
ValidLen(n) == n >= MIN_SIZE /\ n <= MAX_SIZE

\* What the decoder made of an encoder's output is the buffer itself.
RoundTrips(r) ==
    /\ r.status = "eod"
    /\ r.ret = Len(file)
    /\ Bytes(r.outBuf, 0, Len(file)) = file

\* C1: for every buffer and both parsers, uncompressBuffer on the encoder's
\* output succeeds, returns the length of the buffer and reproduces every
\* byte of it.
C1_RoundTrip ==
    d.done => RoundTrips(d.greedy) /\ RoundTrips(d.optimal)

\* An image of a valid length whose encodings both carry a match has been
\* encoded and decoded.
C1_Witness ==
    /\ d.done /\ ValidLen(Len(file))
    /\ d.greedy.matches # <<>> /\ d.optimal.matches # <<>>
    /\ d.greedy.ret = Len(file) /\ d.optimal.ret = Len(file)

\* C2: both encoders write at most inLen + MAX_EXPANSION bytes (100 in the
\* program), so the output stays inside a buffer of MAX_SIZE + MAX_EXPANSION
\* bytes, and the greedy encoder's assert holds at every iteration.
C2_BoundedExpansion ==
    /\ g.done => /\ Len(g.out) <= Len(file) + MAX_EXPANSION
                 /\ Len(g.out) <= MAX_SIZE + MAX_EXPANSION
                 /\ g.assertOk
    /\ o.done => /\ Len(o.out) <= Len(file) + MAX_EXPANSION
                 /\ Len(o.out) <= MAX_SIZE + MAX_EXPANSION

\* The worst case happens: an image of MAX_SIZE bytes without a match, its
\* literals split into runs of at most MAX_LITERAL_LEN, comes within a byte
\* of the bound with both parsers.
C2_Witness ==
    /\ g.done /\ o.done /\ Len(file) = MAX_SIZE
    /\ Len(g.out) >= MAX_SIZE + MAX_EXPANSION - 1
    /\ Len(o.out) >= MAX_SIZE + MAX_EXPANSION - 1

\* C3: on every image of a valid length the optimal parser's output is no
\* longer than the greedy parser's.
C3_OptimalNeverWorse ==
    (g.done /\ o.done /\ ValidLen(Len(file))) => Len(o.out) <= Len(g.out)

\* The chunks of a packed file read by the format alone, from the chunk at
\* p with outLen bytes expanded so far.  kind: "eod", the first end-of-data
\* symbol lies inside the inLen bytes, pos one past it; "cut", the bytes
\* end inside a chunk (after its length byte, before a length extension,
\* before or inside the offset); "literals", they end inside a literal run;
\* "end", they end between chunks.
RECURSIVE Walk(_, _, _, _)
Walk(inBuf, inLen, p, outLen) ==
    IF p >= inLen THEN [kind |-> "end", pos |-> p, outLen |-> outLen]
    ELSE
    LET mixedLen == At(inBuf, p)
        litExt == mixedLen \div 16 = INITIAL_LEN
        matchExt == mixedLen % 16 = INITIAL_LEN
        cut == [kind |-> "cut", pos |-> inLen, outLen |-> outLen]
    IN IF litExt /\ p + 1 >= inLen THEN cut
       ELSE
       LET literalLen == IF litExt THEN INITIAL_LEN + At(inBuf, p + 1)
                         ELSE mixedLen \div 16
           p2 == p + (IF litExt THEN 2 ELSE 1) + literalLen
           p3 == IF matchExt THEN p2 + 1 ELSE p2
       IN IF p2 > inLen
          THEN [kind |-> "literals", pos |-> inLen, outLen |-> outLen]
          ELSE IF matchExt /\ p2 >= inLen THEN cut
          ELSE IF matchExt /\ At(inBuf, p2) = EOD_MATCH_TOKEN
          THEN [kind |-> "eod", pos |-> p3, outLen |-> outLen + literalLen]
          ELSE IF matchExt /\ At(inBuf, p2) = EMPTY_MATCH_TOKEN
          THEN Walk(inBuf, inLen, p3, outLen + literalLen)
          ELSE IF p3 + 2 > inLen THEN cut
          ELSE Walk(inBuf, inLen, p3 + 2,
                    outLen + literalLen + (mixedLen % 16) + MIN_MATCH_LEN
                    + (IF matchExt THEN At(inBuf, p2) ELSE 0))

Walked ==
    IF Len(file) = 0 \/ file[1] # LZ4FH_MAGIC
    THEN [kind |-> "magic", pos |-> 0, outLen |-> 0]
    ELSE Walk(file, Len(file), 1, 0)

\* C4: when the bytes of the input end inside a chunk, no end-of-data
\* symbol before them, uncompressBuffer returns 0 and reads no input byte
\* at an index >= inLen.
C4_TruncatedFails ==
    (d.done /\ Walked.kind = "cut")
        => d.un.ret = 0 /\ d.un.inPos <= Len(file)

\* Nothing is written at or after the output position the call stopped at.
Untouched(un) ==
    \A k \in (un.outPos + 1)..MAX_SIZE : un.outBuf[k] = junk

\* C5: uncompressBuffer writes and reads the output only below MAX_SIZE; a
\* literal run or a match that would pass MAX_SIZE, and a match whose source
\* would, makes it return 0 with no byte of that run or match copied.
C5_OutputBounds ==
    d.done =>
        /\ d.un.outPos <= MAX_SIZE
        /\ d.un.srcEnd <= MAX_SIZE
        /\ Untouched(d.un)
        /\ d.un.status \in {"overrunL", "overrunM"} => d.un.ret = 0

\* A literal run that would pass the end of the screen was refused, the
\* input holding all of it.
C5_Witness ==
    /\ d.done /\ d.un.status = "overrunL"
    /\ d.un.outPos + 4 > MAX_SIZE /\ d.un.inPos + 4 <= Len(file)

\* C6: uncompressBuffer stops at the first chunk that carries the
\* end-of-data symbol and returns the bytes expanded up to it, that
\* chunk's literals included; input left after the symbol is warned about
\* and changes neither the return value nor the output.
C6_EndOfData ==
    (d.done /\ Walked.kind = "eod") =>
        /\ d.un.status \in {"eod", "overrunL", "overrunM"}
        /\ d.un.status = "eod" =>
            /\ d.un.inPos = Walked.pos
            /\ d.un.ret = Walked.outLen
            /\ d.un.warned <=> Walked.pos # Len(file)
            /\ LET whole == uncompressBuffer(FreshOut,
                                Array(Bytes(file, 0, Walked.pos),
                                      MAX_SIZE + MAX_EXPANSION, junk),
                                Walked.pos)
               IN /\ whole.ret = d.un.ret
                  /\ whole.outBuf = d.un.outBuf
                  /\ ~whole.warned

\* A stream with a match and bytes after its end-of-data symbol was
\* decoded.
C6_Witness ==
    /\ d.done /\ Walked.kind = "eod" /\ d.un.status = "eod"
    /\ d.un.warned /\ d.un.matches # <<>> /\ d.un.ret > 0

\* A match that overlaps its own output.
SelfReferential(m) == m[3] < m[1] /\ m[1] < m[3] + m[2]

\* C7: after a match of len bytes at offset, expanded at pos with
\* offset < pos < offset + len, out[pos + j] = out[offset + (j mod (pos -
\* offset))] for every j < len.
C7_OverlapCopy ==
    d.done =>
        \A n \in 1..Len(d.un.matches) :
            LET pos == d.un.matches[n][1]
                len == d.un.matches[n][2]
                offset == d.un.matches[n][3]
            IN SelfReferential(d.un.matches[n]) =>
                \A j \in 0..(len - 1) :
                    At(d.un.outBuf, pos + j)
                        = At(d.un.outBuf, offset + (j % (pos - offset)))

\* A match that repeats a phrase of two different bytes, at least twice
\* over, was expanded.
C7_Witness ==
    /\ d.done
    /\ \E n \in 1..Len(d.un.matches) :
          LET pos == d.un.matches[n][1]
              len == d.un.matches[n][2]
              offset == d.un.matches[n][3]
          IN /\ SelfReferential(d.un.matches[n])
             /\ pos - offset > 1 /\ len >= 2 * (pos - offset)
             /\ At(d.un.outBuf, offset) # At(d.un.outBuf, offset + 1)

\* C8: when the first byte is not LZ4FH_MAGIC, uncompressBuffer returns 0
\* having read that byte only and written nothing.
C8_BadMagic ==
    (d.done /\ Len(file) > 0 /\ file[1] # LZ4FH_MAGIC) =>
        /\ d.un.ret = 0
        /\ d.un.status = "badMagic"
        /\ d.un.inPos = 1
        /\ d.un.outPos = 0
        /\ d.un.outBuf = FreshOut

\* A stream that would decode to a match but for its first byte was
\* refused.
C8_Witness ==
    /\ d.done /\ Len(file) > 5 /\ file[1] # LZ4FH_MAGIC
    /\ d.un.ret = 0
    /\ uncompressBuffer(FreshOut,
           Array([file EXCEPT ![1] = LZ4FH_MAGIC],
                 MAX_SIZE + MAX_EXPANSION, junk), Len(file)).ret > 0

\* The non-preserving call went through both compressions.
Twice == res.done /\ res.stage = "done" /\ ~opts.preserve

\* C9: without hole preservation compressFile compresses a zero-filled and
\* a content-filled copy of the image with the same parser and keeps the
\* output and input of the strictly smaller output, of the zero-filled copy
\* when the sizes are equal: the kept size is the smaller one and the kept
\* input is the one the kept output was made from.
C9_CompressTwice ==
    Twice =>
        /\ res.inBuf1 = zeroHoles(Array(file, MAX_SIZE, junk))
        /\ Bytes(res.inBuf2, 0, MIN_SIZE)
            = Bytes(fillHoles(Array(file, MAX_SIZE, junk)), 0, MIN_SIZE)
        /\ res.outSize1 = Len(res.outBuf1) /\ res.outSize2 = Len(res.outBuf2)
        /\ res.outSize1 <= res.outSize2 =>
            /\ res.choice = "zeroed" /\ res.outSize = res.outSize1
            /\ res.outBuf = res.outBuf1 /\ res.inBuf = res.inBuf1
        /\ res.outSize2 < res.outSize1 =>
            /\ res.choice = "filled" /\ res.outSize = res.outSize2
            /\ res.outBuf = res.outBuf2 /\ res.inBuf = res.inBuf2
        /\ LET un == Decoded(res.outBuf)
           IN Bytes(un.outBuf, 0, un.ret) = Bytes(res.inBuf, 0, MIN_SIZE)

\* Two copies that differ gave outputs of one size and the zero-filled
\* one was kept.
C9_Witness ==
    /\ Twice /\ res.result = 0
    /\ res.outSize1 = res.outSize2
    /\ Bytes(res.inBuf1, 0, MIN_SIZE) # Bytes(res.inBuf2, 0, MIN_SIZE)
    /\ res.choice = "zeroed"

\* The output left for the verification expands to exactly SourceLen bytes
\* and they are the first SourceLen bytes of the input.
Verified ==
    LET un == Decoded(g.out)
    IN /\ Len(g.out) # 0
       /\ un.ret = SourceLen
       /\ \A ii \in 0..(SourceLen - 1) : At(un.outBuf, ii) = At(file, ii)

\* C10: compressFile returns 0 and keeps the compressed data only if
\* uncompressBuffer on the selected output returns sourceLen and every one
\* of the sourceLen bytes equals the selected input's; any other outcome
\* makes it fail and no compressed data is kept.
C10_VerificationGate ==
    res.done =>
        /\ res.result = 0 => Verified
        /\ ~Verified => res.result # 0 /\ ~res.outFile.exists
        /\ res.outFile.exists => res.result = 0 /\ res.outFile.data = g.out

\* An output of the right length with its last byte wrong was refused and
\* no file was left.
C10_Witness ==
    /\ res.done /\ res.result # 0 /\ ~res.outFile.exists /\ opts.toFile
    /\ Decoded(g.out).ret = SourceLen
    /\ Bytes(Decoded(g.out).outBuf, 0, SourceLen - 1)
        = Bytes(file, 0, SourceLen - 1)

\* The chunk of stream s at index p, read by the format, with pos bytes
\* expanded before it.  Of the chunk: at, the index of its length byte;
\* litLen and lits, its literals; litExt and matchExt, its extension bytes
\* (-1 for none); kind: "match", "empty" (the no-match symbol) or "eod";
\* matchLen and offset; pos, the output position after its literals, where
\* its match starts; next, the index after the chunk.
ChunkAt(s, p, pos) ==
    LET mixedLen == At(s, p)
        hasLitExt == mixedLen \div 16 = INITIAL_LEN
        hasMatchExt == mixedLen % 16 = INITIAL_LEN
        litExt == IF hasLitExt THEN Peek(s, p + 1) ELSE -1
        litLen == IF hasLitExt THEN INITIAL_LEN + litExt ELSE mixedLen \div 16
        p1 == p + (IF hasLitExt THEN 2 ELSE 1)
        p2 == p1 + litLen
        matchExt == IF hasMatchExt THEN Peek(s, p2) ELSE -1
        p3 == p2 + (IF hasMatchExt THEN 1 ELSE 0)
        kind == IF matchExt = EOD_MATCH_TOKEN THEN "eod"
                ELSE IF matchExt = EMPTY_MATCH_TOKEN THEN "empty"
                ELSE "match"
        matchLen == IF kind = "match"
                    THEN (mixedLen % 16) + MIN_MATCH_LEN
                         + (IF hasMatchExt THEN matchExt ELSE 0)
                    ELSE 0
        next == IF kind = "match" THEN p3 + 2 ELSE p3
        chunk == [at |-> p, litLen |-> litLen, litExt |-> litExt,
                  lits |-> SubSeq(s, p1 + 1, IF p2 < Len(s) THEN p2 ELSE Len(s)),
                  kind |-> kind, matchLen |-> matchLen, matchExt |-> matchExt,
                  offset |-> IF kind = "match"
                             THEN Peek(s, p3) + 256 * Peek(s, p3 + 1) ELSE 0,
                  pos |-> pos + litLen, next |-> next]
    IN chunk

\* The chunks read so far and chunk, the one after them; more: chunk is not
\* the end-of-data symbol and bytes of s follow it.
WithChunk(s, c, chunk) ==
    [c |-> Append(c, chunk), p |-> chunk.next,
     pos |-> chunk.pos + chunk.matchLen,
     more |-> chunk.kind # "eod" /\ chunk.next < Len(s)]

\* At most n more chunks; every chunk has at least one byte.
RECURSIVE ChunksLoop(_, _, _)
ChunksLoop(s, n, st) ==
    IF ~st.more THEN st
    ELSE IF n > 1
    THEN ChunksLoop(s, n - (n \div 2), ChunksLoop(s, n \div 2, st))
    ELSE WithChunk(s, st.c, ChunkAt(s, st.p, st.pos))

\* The chunks after the magic byte.
Chunks(s) ==
    ChunksLoop(s, Len(s),
        [c |-> <<>>, p |-> 1, pos |-> 0, more |-> 1 < Len(s)]).c

\* The chunks c end with the end-of-data symbol at the end of stream s.
Complete(s, c) ==
    /\ Len(s) > 0 /\ s[1] = LZ4FH_MAGIC
    /\ Len(c) > 0 /\ c[Len(c)].kind = "eod" /\ c[Len(c)].next = Len(s)

\* The image of C11, at its real size or at the size of the model's screen.
ZeroImage == Len(file) = ALL_ZERO_LEN \/ ValidLen(Len(file))

\* Stream s is a seed of one literal zero and matches over it: every match
\* starts at offset 0, before its own output, and runs into it; together
\* they expand to n bytes.
SeedAndMatches(s, c, n) ==
    /\ Complete(s, c)
    /\ Len(c) >= 2
    /\ c[1].lits = <<0>> /\ c[1].litLen = 1
    /\ \A k \in 2..Len(c) : c[k].litLen = 0
    /\ \A k \in 1..(Len(c) - 1) :
          /\ c[k].kind = "match"
          /\ c[k].offset = 0 /\ c[k].pos >= 1
          /\ c[k].matchLen >= MIN_MATCH_LEN /\ c[k].matchLen <= MAX_MATCH_LEN
    /\ c[Len(c)].pos = n

\* Matches of MAX_MATCH_LEN bytes and a last shorter one: of 4 bytes each
\* (length byte, extension, offset), 3 when the last is shorter than 19.
LongestMatches(s, c, n) ==
    /\ Len(c) - 1 = (n - 1 + MAX_MATCH_LEN - 1) \div MAX_MATCH_LEN
    /\ \A k \in 1..(Len(c) - 2) : c[k].matchLen = MAX_MATCH_LEN
    /\ Len(s) = 1 + 1 + 4 * (Len(c) - 1) + 2
                - (IF c[Len(c) - 1].matchLen - MIN_MATCH_LEN < INITIAL_LEN
                   THEN 1 ELSE 0)

\* C11 as stated: compressing the image of zero bytes with either parser
\* gives an output that begins with 0x66, is a literal seed and matches over
\* it, has at most 20 bytes, and decompresses to the input.
C11_AllZeroWithin20 ==
    ZeroImage =>
        /\ g.done => /\ SeedAndMatches(g.out, Chunks(g.out), Len(file))
                     /\ Len(g.out) <= 20
        /\ o.done => /\ SeedAndMatches(o.out, Chunks(o.out), Len(file))
                     /\ Len(o.out) <= 20
        /\ d.done => RoundTrips(d.greedy) /\ RoundTrips(d.optimal)

\* C11, amended: compressing the image of 8192 zero bytes with either
\* parser gives an output that begins with 0x66 and is a seed of one literal
\* zero followed by matches at offset 0 of at most 255 bytes each (32 of 255
\* bytes and one of 31), 136 bytes in all; it decompresses to the input.
C11_AllZeroImage ==
    /\ ZeroImage =>
        /\ g.done => /\ SeedAndMatches(g.out, Chunks(g.out), Len(file))
                     /\ LongestMatches(g.out, Chunks(g.out), Len(file))
        /\ o.done => /\ SeedAndMatches(o.out, Chunks(o.out), Len(file))
                     /\ LongestMatches(o.out, Chunks(o.out), Len(file))
    /\ Len(file) = ALL_ZERO_LEN =>
        /\ g.done => Len(g.out) = 136 /\ Len(Chunks(g.out)) = 34
        /\ o.done => Len(o.out) = 136 /\ Len(Chunks(o.out)) = 34
    /\ d.done => RoundTrips(d.greedy) /\ RoundTrips(d.optimal)

\* The image of 8192 zero bytes went through both parsers and came out
\* longer than 20 bytes.
C11_Witness ==
    /\ Len(file) = ALL_ZERO_LEN /\ g.done /\ o.done
    /\ Len(g.out) > 20 /\ Len(o.out) > 20
    /\ g.out[1] = LZ4FH_MAGIC /\ o.out[1] = LZ4FH_MAGIC

\* The number of bytes on which buf[i..] and buf[p..] agree, cap at most.
CommonPrefix(buf, i, p, cap) ==
    Cardinality({k \in 1..cap :
                    \A j \in 0..(k - 1) : At(buf, i + j) = At(buf, p + j)})

\* min(255, N - p) at the position tried.
MatchCap ==
    IF Len(file) - d.matchPtr > MAX_MATCH_LEN THEN MAX_MATCH_LEN
    ELSE Len(file) - d.matchPtr

\* The candidate starts whose common prefix with the position tried is len.
Attaining(len) ==
    {i \in 0..(d.matchPtr - 1) :
        CommonPrefix(file, i, d.matchPtr, MatchCap) = len}

\* C12: findLongestMatch at position p of a buffer of N bytes returns the
\* largest common prefix of buf[i..] and buf[p..] over the starts i < p,
\* capped at min(255, N - p), and the smallest i that attains it; the offset
\* is below p when the length is not 0, and the length is 0 when p = 0 or
\* min(255, N - p) < 4.
C12_MatchFinder ==
    d.done =>
        /\ (d.matchPtr = 0 \/ MatchCap < MIN_MATCH_LEN) => d.longest = 0
        /\ MatchCap >= MIN_MATCH_LEN =>
              /\ d.longest <= MatchCap
              /\ \A len \in (d.longest + 1)..MatchCap : Attaining(len) = {}
              /\ d.longest > 0 =>
                    /\ d.longestOffset \in Attaining(d.longest)
                    /\ \A i \in Attaining(d.longest) : d.longestOffset <= i
                    /\ d.longestOffset < d.matchPtr

\* Two starts attain the longest match, which is shorter than the cap, and
\* the first of them was returned.
C12_Witness ==
    /\ d.done /\ d.longest >= MIN_MATCH_LEN /\ d.longest < MatchCap
    /\ Cardinality(Attaining(d.longest)) >= 2
    /\ d.longestOffset < d.matchPtr

\* The chunks c of stream s are well formed and expand to n bytes.
WellFormed(s, c, n) ==
    /\ Complete(s, c)
    /\ c[Len(c)].pos = n
    /\ \A k \in 1..Len(c) :
          /\ c[k].litLen >= 0 /\ c[k].litLen <= MAX_LITERAL_LEN
          /\ c[k].litExt <= MAX_LITERAL_LEN - INITIAL_LEN
          /\ Len(c[k].lits) = c[k].litLen
          /\ c[k].kind = "match" =>
                /\ c[k].matchLen >= MIN_MATCH_LEN
                /\ c[k].matchLen <= MAX_MATCH_LEN
                /\ c[k].matchExt <= MAX_MATCH_LEN - MIN_MATCH_LEN - INITIAL_LEN
                /\ c[k].offset < c[k].pos

\* C13: in every stream either encoder writes, every literal run has 0..255
\* bytes (its extension byte is at most 240), every match has 4..255 bytes
\* (its extension byte is 0..236 or one of the symbols 253 and 254) and
\* starts at an offset below the output position the match starts at.
C13_WellFormedChunks ==
    /\ g.done => WellFormed(g.out, Chunks(g.out), Len(file))
    /\ o.done => WellFormed(o.out, Chunks(o.out), Len(file))

\* Both encoders wrote a match of 255 bytes (extension byte 236) that
\* starts right before its own output.
C13_Witness ==
    /\ g.done /\ o.done
    /\ \E k \in 1..Len(Chunks(g.out)) :
          /\ Chunks(g.out)[k].matchLen = MAX_MATCH_LEN
          /\ Chunks(g.out)[k].offset + 1 = Chunks(g.out)[k].pos
    /\ \E k \in 1..Len(Chunks(o.out)) :
          /\ Chunks(o.out)[k].matchLen = MAX_MATCH_LEN
          /\ Chunks(o.out)[k].matchExt = 236

\* The longest match at position i of the buffer, as pass 1 finds it.
LongestAt(i) == findLongestMatch(file, Len(file), i).longest

\* C14: at every position i with a longest match of L >= 4 bytes, the cost
\* of the match path in the optimal parser is 3 + optList[i + L].totalCost,
\* and one more exactly when L - 4 >= 15, when the chunk written for the
\* match carries a match length extension byte.
C14_MatchCost ==
    o.done =>
        \A i \in 0..(Len(file) - 1) :
            LongestAt(i) >= MIN_MATCH_LEN =>
                CostForMatch(o.optList, i, LongestAt(i))
                    = 3 + At(o.optList, i + LongestAt(i)).totalCost
                      + (IF LongestAt(i) - MIN_MATCH_LEN >= INITIAL_LEN
                         THEN 1 ELSE 0)

\* The chunks c of stream s split a run of literals only where the
\* literals of the chunk and of the next one are more than 255 in a row.
SplitsOnlyLongRuns(c) ==
    \A k \in 1..Len(c) :
        c[k].kind = "empty" =>
            /\ k < Len(c)
            /\ c[k].litLen >= 1 /\ c[k + 1].litLen >= 1
            /\ c[k].litLen + c[k + 1].litLen > MAX_LITERAL_LEN

\* C15: a chunk with the no-match symbol 253 is written only where more
\* than 255 literal bytes follow one another; in the greedy parser's output
\* such a chunk has exactly 255 literals (length byte 0xff, extension 240),
\* in the optimal parser's output the run that follows it has exactly 255.
C15_LiteralSplits ==
    /\ g.done =>
          /\ SplitsOnlyLongRuns(Chunks(g.out))
          /\ \A k \in 1..Len(Chunks(g.out)) :
                Chunks(g.out)[k].kind = "empty" =>
                    /\ Chunks(g.out)[k].litLen = MAX_LITERAL_LEN
                    /\ At(g.out, Chunks(g.out)[k].at) = 255
                    /\ Chunks(g.out)[k].litExt = 240
    /\ o.done =>
          /\ SplitsOnlyLongRuns(Chunks(o.out))
          /\ \A k \in 1..(Len(Chunks(o.out)) - 1) :
                Chunks(o.out)[k].kind = "empty" =>
                    Chunks(o.out)[k + 1].litLen = MAX_LITERAL_LEN

\* An image without a match was split by both parsers: 255 literals and
\* the rest by the greedy one, the rest and 255 literals by the optimal one.
C15_Witness ==
    /\ g.done /\ o.done
    /\ Chunks(g.out)[1].kind = "empty" /\ Chunks(o.out)[1].kind = "empty"
    /\ Chunks(g.out)[1].litLen = MAX_LITERAL_LEN
    /\ Chunks(g.out)[2].litLen < MAX_LITERAL_LEN
    /\ Chunks(o.out)[1].litLen < MAX_LITERAL_LEN
    /\ Chunks(o.out)[2].litLen = MAX_LITERAL_LEN

\* The offsets of the screen holes: 120 + 128k, k in 0..63 in the program.
Holes == {120 + 128 * k : k \in 0..(Rows - 1)}

InHole(idx) == idx % 128 >= 120

\* The bytes after the hole at h are inside the buffer and look like a
\* 2-byte pattern that repeats.
LooksRepeating(b, h) ==
    /\ h + 8 < MAX_SIZE
    /\ At(b, h + 8) = At(b, h + 10)
    /\ At(b, h + 9) = At(b, h + 11)

\* C16: fillHoles rewrites every hole at h = 120 + 128k from the bytes
\* around it as they were and changes nothing outside the holes: when
\* h + 8 is inside the buffer and b[h+8] = b[h+10] and b[h+9] = b[h+11],
\* hole[h+i] = b[h+8 + (i mod 2)] for i in 0..7, otherwise
\* hole[h+i] = b[h-2 + (i mod 2)]; the last hole always takes the bytes
\* before it.
C16_FillHoles ==
    o.done =>
        /\ Len(o.inBuf) = MAX_SIZE
        /\ \A idx \in 0..(MAX_SIZE - 1) :
              ~InHole(idx) => At(o.inBuf, idx) = At(file, idx)
        /\ \A h \in Holes : \A i \in 0..7 :
              At(o.inBuf, h + i)
                = IF LooksRepeating(file, h) THEN At(file, h + 8 + (i % 2))
                  ELSE At(file, h - 2 + (i % 2))
        /\ \A i \in 0..7 :
              At(o.inBuf, MAX_SIZE - 8 + i) = At(file, MAX_SIZE - 10 + (i % 2))

\* A hole that held other bytes took the repeating pattern after it, and
\* the last hole the two different bytes before it.
C16_Witness ==
    /\ o.done
    /\ LooksRepeating(file, 120)
    /\ At(file, 128) # At(file, 129)
    /\ Bytes(file, 120, 8) # Bytes(o.inBuf, 120, 8)
    /\ At(file, 118) # At(file, 119) /\ At(file, 118) # At(file, 128)
    /\ Bytes(o.inBuf, MAX_SIZE - 8, 2) = Bytes(file, MAX_SIZE - 10, 2)

\* C17: after zeroHoles every byte at 120 + 128k + j, j in 0..7, is 0 and
\* every other byte is as it was; 8 bytes a row are written (512 positions
\* in the program's 64 rows).
C17_ZeroHoles ==
    g.done =>
        /\ Len(g.inBuf) = MAX_SIZE
        /\ \A idx \in 0..(MAX_SIZE - 1) :
              At(g.inBuf, idx) = IF InHole(idx) THEN 0 ELSE At(file, idx)
        /\ Cardinality({idx \in 0..(MAX_SIZE - 1) : InHole(idx)}) = 8 * Rows
        /\ {idx \in 0..(MAX_SIZE - 1) : At(g.inBuf, idx) # At(file, idx)}
              \subseteq {h + j : h \in Holes, j \in 0..7}

\* Holes that held no zero byte were cleared: exactly the 8 bytes of every
\* row changed, and the byte before a hole was kept.
C17_Witness ==
    /\ g.done
    /\ {idx \in 0..(MAX_SIZE - 1) : At(g.inBuf, idx) # At(file, idx)}
         = {h + j : h \in Holes, j \in 0..7}
    /\ At(g.inBuf, 119) = At(file, 119) /\ At(file, 119) # 0

\* C18: the length compressBufferOptimally predicts, optList[0].totalCost
\* and 1 for the magic byte, 1 for the end-of-data symbol and 1 more when
\* the stream ends with a match, is the number of bytes it writes.
C18_PredictedLength ==
    o.done => o.predictedLength = Len(o.out)

\* C19: uncompressBuffer copies a match only from bytes it has produced:
\* every match it expands starts at an offset below the output position the
\* match starts at, so every source index read is below the position
\* written.  Stated for the inputs whose chunks run to an end-of-data
\* symbol inside the input, where every byte decoded is a byte of the file.
C19_MatchSourceProduced ==
    (d.done /\ Walked.kind = "eod") =>
        \A n \in 1..Len(d.un.matches) :
            d.un.matches[n][3] < d.un.matches[n][1]

\* compressFile accepted the file and went on to compress it.
Compressed == res.done /\ res.stage = "done"

\* C20: without hole preservation compressFile compresses the first 8184
\* (MIN_SIZE) bytes of the image with its holes rewritten, whatever the
\* length of the file from 8184 to 8192, and the output decodes to exactly
\* that many bytes; with hole preservation it compresses the file as it is
\* at its own length, and the output decodes to the file byte for byte.
C20_SourceLen ==
    Compressed =>
        /\ ValidLen(Len(file))
        /\ ~opts.preserve =>
              /\ res.sourceLen = MIN_SIZE
              /\ res.result = 0
              /\ Decoded(res.outBuf).ret = MIN_SIZE
              /\ \A idx \in 0..(MIN_SIZE - 1) :
                    /\ At(Decoded(res.outBuf).outBuf, idx) = At(res.inBuf, idx)
                    /\ idx % 128 < 120 =>
                          At(Decoded(res.outBuf).outBuf, idx) = At(file, idx)
        /\ opts.preserve =>
              /\ res.sourceLen = Len(file)
              /\ res.result = 0
              /\ Decoded(res.outBuf).ret = Len(file)
              /\ Bytes(Decoded(res.outBuf).outBuf, 0, Len(file)) = file

\* A file that ends inside the last screen hole was compressed without
\* hole preservation and decodes to fewer bytes than it has.
C20_Witness ==
    /\ Compressed /\ ~opts.preserve /\ res.result = 0
    /\ Len(file) > MIN_SIZE /\ Len(file) < MAX_SIZE
    /\ Decoded(res.outBuf).ret = MIN_SIZE
====
